---- MODULE Spec2Model ----
(***************************************************************************)
(* Model of beancount2/imports/sources/rbcinvesting.py: the importer of    *)
(* RBC Direct Investing activity statements.                               *)
(*                                                                         *)
(* Text is modelled as a sequence of one-character strings, so that the    *)
(* regular expressions, the parsing of dates and decimals and the          *)
(* formatting of values are computed character by character.               *)
(*                                                                         *)
(* A Decimal is the triple of Python's decimal.Decimal: sign, coefficient  *)
(* (int) and exponent.  The context precision (28 digits) is not modelled: *)
(* every coefficient of the model has a handful of digits.                 *)
(***************************************************************************)
EXTENDS Integers, Sequences, FiniteSets, TLC

VARIABLES pc, rdr, index, row, account_position, new_entries, result, error, entries

vars == <<pc, rdr, index, row, account_position, new_entries, result, error, entries>>

-----------------------------------------------------------------------------
(* Characters and text *)

DigitChars == <<"0", "1", "2", "3", "4", "5", "6", "7", "8", "9">>

Digits == {DigitChars[i] : i \in 1..10}

Letters ==
  {"A","B","C","D","E","F","G","H","I","J","K","L","M","N","O","P","Q","R","S","T","U","V","W","X","Y","Z",
   "a","b","c","d","e","f","g","h","i","j","k","l","m","n","o","p","q","r","s","t","u","v","w","x","y","z"}

\* \w of the re module
IsWordChar(ch) == ch \in Letters \cup Digits \cup {"_"}

DigitVal(ch) == CHOOSE n \in 0..9 : DigitChars[n + 1] = ch

AllDigits(s) == \A i \in 1..Len(s) : s[i] \in Digits

RECURSIVE int_(_)
\* int(digits)
int_(ds) == IF ds = <<>> THEN 0
            ELSE 10 * int_(SubSeq(ds, 1, Len(ds) - 1)) + DigitVal(ds[Len(ds)])

RECURSIVE str_int(_)
\* str(n) of a natural number
str_int(n) == IF n < 10 THEN <<DigitChars[n + 1]>>
              ELSE str_int(n \div 10) \o <<DigitChars[(n % 10) + 1]>>

RECURSIVE Zeros(_)
\* '0' * n
Zeros(n) == IF n <= 0 THEN <<>> ELSE <<"0">> \o Zeros(n - 1)

\* s.find(ch) + 1: the first position of a character of chs in s, 0 if none
Find(s, chs) == IF \E i \in 1..Len(s) : s[i] \in chs
                THEN CHOOSE i \in 1..Len(s) : s[i] \in chs /\ \A j \in 1..(i - 1) : s[j] \notin chs
                ELSE 0

StripKeep(s, keep) ==
  IF keep = {} THEN <<>>
  ELSE SubSeq(s, CHOOSE i \in keep : \A j \in keep : i <= j,
                 CHOOSE i \in keep : \A j \in keep : i >= j)

\* s.strip() for the space character
Strip(s) == StripKeep(s, {i \in 1..Len(s) : s[i] # " "})

\* strord.replace(',', '')
StripCommas(s) == SelectSeq(s, LAMBDA ch : ch # ",")

RECURSIVE Join(_, _)
\* sep.join(parts)
Join(sep, parts) == IF parts = <<>> THEN <<>>
                    ELSE IF Len(parts) = 1 THEN parts[1]
                    ELSE parts[1] \o sep \o Join(sep, Tail(parts))

\* filter(None, parts): the non-empty parts, in order
FilterNone(parts) == SelectSeq(parts, LAMBDA p : p # <<>>)

-----------------------------------------------------------------------------
(* decimal.Decimal *)

InvalidOperation == [ok |-> FALSE, sign |-> 0, int |-> 0, exp |-> 0]

Dec(sign, coeff, exp) == [ok |-> TRUE, sign |-> sign, int |-> coeff, exp |-> exp]

\* Decimal(): zero
DecimalZero == Dec(0, 0, 0)

\* The exponent of a numeric string: [-+]?\d+ after the E, or absent
ExponentOK(expo) ==
  \/ expo = <<>>
  \/ expo[1] \in {"-", "+"} /\ Len(expo) > 1 /\ AllDigits(Tail(expo))
  \/ expo[1] \notin {"-", "+"} /\ AllDigits(expo)

ExponentVal(expo) ==
  IF expo = <<>> THEN 0
  ELSE IF expo[1] = "-" THEN 0 - int_(Tail(expo))
  ELSE IF expo[1] = "+" THEN int_(Tail(expo))
  ELSE int_(expo)

\* The digits before and after the decimal point, and the exponent
DecimalFromParts(sign, intp, frac, hasE, expo) ==
  IF /\ AllDigits(intp) /\ AllDigits(frac)
     /\ Len(intp) + Len(frac) > 0
     /\ (IF hasE THEN expo # <<>> /\ ExponentOK(expo) ELSE TRUE)
  THEN Dec(sign, int_(intp \o frac), ExponentVal(expo) - Len(frac))
  ELSE InvalidOperation

\* The mantissa split at its decimal point, at position dPos (0: none)
DecimalFromMantissa(sign, mant, dPos, hasE, expo) ==
  IF dPos = 0 THEN DecimalFromParts(sign, mant, <<>>, hasE, expo)
  ELSE DecimalFromParts(sign, SubSeq(mant, 1, dPos - 1), SubSeq(mant, dPos + 1, Len(mant)),
                        hasE, expo)

\* The unsigned text split at its E, at position ePos (0: none)
DecimalFromBody(sign, body, ePos) ==
  IF ePos = 0 THEN DecimalFromMantissa(sign, body, Find(body, {"."}), FALSE, <<>>)
  ELSE DecimalFromMantissa(sign, SubSeq(body, 1, ePos - 1),
                           Find(SubSeq(body, 1, ePos - 1), {"."}),
                           TRUE, SubSeq(body, ePos + 1, Len(body)))

DecimalFromStripped(s) ==
  IF s # <<>> /\ s[1] \in {"-", "+"}
  THEN DecimalFromBody(IF s[1] = "-" THEN 1 ELSE 0, Tail(s), Find(Tail(s), {"E", "e"}))
  ELSE DecimalFromBody(0, s, Find(s, {"E", "e"}))

\* Decimal(text): an optional sign, digits with an optional fraction, an
\* optional exponent; surrounding spaces are stripped.  Anything else raises
\* InvalidOperation.
DecimalFromStr(text) == DecimalFromStripped(Strip(text))

\* bool(d)
DecimalBool(d) == d.int # 0

\* -d: the negation of zero is the positive zero
DecimalNeg(d) == IF d.int = 0 THEN Dec(0, 0, d.exp) ELSE Dec(1 - d.sign, d.int, d.exp)

\* a * b
DecimalMul(a, b) == Dec((a.sign + b.sign) % 2, a.int * b.int, a.exp + b.exp)

\* d / n for n = 10^3: the exact quotient with the exponent as close to the
\* ideal exponent (that of d) as the coefficient allows.
DecimalDivShift(d, n, k) == Dec(d.sign, (d.int * 10^k) \div n, d.exp - k)

DecimalDiv(d, n) ==
  DecimalDivShift(d, n, CHOOSE j \in 0..3 : /\ (d.int * 10^j) % n = 0
                                            /\ \A i \in 0..(j - 1) : (d.int * 10^i) % n # 0)

\* Decimal == Decimal: numeric equality
DecimalEqAt(a, b, m) ==
  /\ a.int * 10^(a.exp - m) = b.int * 10^(b.exp - m)
  /\ (a.int = 0 \/ a.sign = b.sign)

DecimalEq(a, b) == DecimalEqAt(a, b, IF a.exp < b.exp THEN a.exp ELSE b.exp)

\* Decimal == str: the operand types do not compare, the result is False
\* whatever the values.
DecimalEqStr(d, text) == FALSE

\* The digits of the coefficient laid out around the decimal point
DecimalStrParts(digits, leftdigits, dotplace) ==
     (IF dotplace <= 0 THEN <<"0", ".">> \o Zeros(0 - dotplace) \o digits
      ELSE IF dotplace >= Len(digits) THEN digits \o Zeros(dotplace - Len(digits))
      ELSE SubSeq(digits, 1, dotplace) \o <<".">> \o SubSeq(digits, dotplace + 1, Len(digits)))
  \o (IF leftdigits = dotplace THEN <<>>
      ELSE IF leftdigits < dotplace THEN <<"E", "-">> \o str_int(dotplace - leftdigits)
      ELSE <<"E", "+">> \o str_int(leftdigits - dotplace))

DecimalStrDigits(digits, exp) ==
  DecimalStrParts(digits, exp + Len(digits),
                  IF exp <= 0 /\ exp + Len(digits) > -6 THEN exp + Len(digits) ELSE 1)

\* str(d): scientific notation when the exponent is positive or the value
\* has more than five leading zeros after the point
DecimalStr(d) ==
  (IF d.sign = 1 THEN <<"-">> ELSE <<>>) \o DecimalStrDigits(str_int(d.int), d.exp)

\* decimal(strord) of the importer
decimal(strord) ==
  IF strord = <<>> THEN DecimalZero ELSE DecimalFromStr(StripCommas(strord))

-----------------------------------------------------------------------------
(* datetime *)

ValueErrorDate == [ok |-> FALSE, year |-> 0, month |-> 0, day |-> 0]

IsLeap(y) == y % 4 = 0 /\ (y % 100 # 0 \/ y % 400 = 0)

DaysInMonth(y, m) == IF m = 2 THEN (IF IsLeap(y) THEN 29 ELSE 28)
                     ELSE IF m \in {4, 6, 9, 11} THEN 30 ELSE 31

\* %m: 1[0-2]|0[1-9]|[1-9]
MonthOK(t) == \/ Len(t) = 1 /\ t[1] \in Digits \ {"0"}
              \/ Len(t) = 2 /\ t[1] = "0" /\ t[2] \in Digits \ {"0"}
              \/ Len(t) = 2 /\ t[1] = "1" /\ t[2] \in {"0", "1", "2"}

\* %d: 3[0-1]|[1-2]\d|0[1-9]|[1-9]| [1-9]
DayOK(t) == \/ Len(t) = 1 /\ t[1] \in Digits \ {"0"}
            \/ Len(t) = 2 /\ t[1] \in {"0", " "} /\ t[2] \in Digits \ {"0"}
            \/ Len(t) = 2 /\ t[1] \in {"1", "2"} /\ t[2] \in Digits
            \/ Len(t) = 2 /\ t[1] = "3" /\ t[2] \in {"0", "1"}

\* date(y, m, d): the day must exist
date_of(y, m, d) ==
  IF y >= 1 /\ d <= DaysInMonth(y, m) THEN [ok |-> TRUE, year |-> y, month |-> m, day |-> d]
  ELSE ValueErrorDate

\* The text after "YYYY-", split at its dash, at position dash (0: none)
strptime_md(ytxt, rest, dash) ==
  IF /\ dash > 0
     /\ MonthOK(SubSeq(rest, 1, dash - 1))
     /\ DayOK(SubSeq(rest, dash + 1, Len(rest)))
  THEN date_of(int_(ytxt), int_(SubSeq(rest, 1, dash - 1)),
               int_(Strip(SubSeq(rest, dash + 1, Len(rest)))))
  ELSE ValueErrorDate

\* datetime.datetime.strptime(text, '%Y-%m-%d').date(): %Y is four digits
strptime(text) ==
  IF Len(text) >= 8 /\ AllDigits(SubSeq(text, 1, 4)) /\ text[5] = "-"
  THEN strptime_md(SubSeq(text, 1, 4), SubSeq(text, 6, Len(text)),
                   Find(SubSeq(text, 6, Len(text)), {"-"}))
  ELSE ValueErrorDate

\* '%0*d' % (width, n)
Pad(n, width) == Zeros(width - Len(str_int(n))) \o str_int(n)

\* str(date): YYYY-MM-DD
DateStr(d) == Pad(d.year, 4) \o <<"-">> \o Pad(d.month, 2) \o <<"-">> \o Pad(d.day, 2)

-----------------------------------------------------------------------------
(* String literals of the importer *)

T_ADJ_RR == <<"A", "D", "J", " ", "R", "R">>

T_RTC_RR == <<"R", "T", "C", " ", "R", "R">>

T_EXH_AB == <<"E", "X", "H", " ", "A", "B">>

T_DIV_F6 == <<"D", "I", "V", " ", "F", "6">>

T_Buy == <<"B", "u", "y">>

T_Sell == <<"S", "e", "l", "l">>

T_SEL_FF == <<"S", "E", "L", " ", "F", "F">>

T_PUR_FF == <<"P", "U", "R", " ", "F", "F">>

T_DIST == <<"D", "I", "S", "T">>

T_1000THS == <<"1", "0", "0", "0", "T", "H", "S">>

T_SEP == <<" ", "-", "-", " ">>

T_Settlement == <<"S", "e", "t", "t", "l", "e", "m", "e", "n", "t", ":", " ">>

T_per_share == <<" ", "p", "e", "r", " ", "s", "h", "a", "r", "e">>

-----------------------------------------------------------------------------
(* Regular expressions of the importer *)

\* The end of the longest run of characters of cs that starts at position
\* start (start - 1 when the run is empty): a greedy [cs]*
RunEnd(s, start, cs) ==
  CHOOSE e \in (start - 1)..Len(s) :
    /\ \A j \in start..e : s[j] \in cs
    /\ (e = Len(s) \/ s[e + 1] \notin cs)

\* re.match('1000THS', s): the marker at the start of s
ReMatch1000THS(s) == Len(s) >= Len(T_1000THS) /\ SubSeq(s, 1, Len(T_1000THS)) = T_1000THS

\* \b between positions i and i + 1 of s
WordBoundary(s, i) ==
  (i >= 1 /\ IsWordChar(s[i])) # (i + 1 <= Len(s) /\ IsWordChar(s[i + 1]))

\* re.search(r'\bDIST\b', s)
ReSearchDIST(s) ==
  \E i \in 1..(Len(s) - 3) :
    /\ SubSeq(s, i, i + 3) = T_DIST
    /\ WordBoundary(s, i - 1)
    /\ WordBoundary(s, i + 3)

\* r'\$([0-9,]+\.[0-9]+)' at position i of s, the run [0-9,]+ ending at
\* j: the end of the match, 0 if there is none.  "." is not in [0-9,], so
\* the greedy run never gives back a character.
AmountMatchEnd(s, i, j) ==
  IF /\ s[i] = "$"
     /\ j >= i + 1
     /\ j + 1 <= Len(s) /\ s[j + 1] = "."
     /\ RunEnd(s, j + 2, Digits) >= j + 2
  THEN RunEnd(s, j + 2, Digits)
  ELSE 0

AmountMatchAt(s, i) == AmountMatchEnd(s, i, RunEnd(s, i + 1, Digits \cup {","}))

AmountGroup(s, at) ==
  IF at = {} THEN [found |-> FALSE, group |-> <<>>]
  ELSE [found |-> TRUE,
        group |-> SubSeq(s, (CHOOSE a \in at : \A b \in at : a <= b) + 1,
                         AmountMatchAt(s, CHOOSE a \in at : \A b \in at : a <= b))]

\* re.search(r'\$([0-9,]+\.[0-9]+)', s): found, and group(1) of the leftmost match
ReSearchAmount(s) == AmountGroup(s, {i \in 1..Len(s) : AmountMatchAt(s, i) > 0})

-----------------------------------------------------------------------------
(* fixup_row *)

Thousand == 1000

\* The marker anywhere in the text: re.search('1000THS', s)
ReSearch1000THS(s) ==
  \E i \in 1..(Len(s) - Len(T_1000THS) + 1) : SubSeq(s, i, i + Len(T_1000THS) - 1) = T_1000THS

\* A scaling that looks for the marker anywhere in the description
scale_quantity_search(quantity, description) ==
  IF ReSearch1000THS(description) THEN DecimalDiv(quantity, Thousand) ELSE quantity

\* A scaling that does not look at the description
scale_quantity_always(quantity, description) == DecimalDiv(quantity, Thousand)

\* re.match('1000THS', row.description) of fixup_row, and the division
scale_quantity(quantity, description) ==
  IF ReMatch1000THS(description) THEN DecimalDiv(quantity, Thousand) ELSE quantity

\* The back-fill of the amount.  The comparison is between the Decimal just
\* converted and the string '0'.  (decimal() of a Decimal is that Decimal.)
backfill_amount(amount, quantity, price) ==
  IF DecimalEqStr(amount, <<"0">>) THEN DecimalMul(quantity, price) ELSE amount

\* A resolution that looks for DIST anywhere, inside a word too
resolve_action_substring(action, description) ==
  IF action = <<>> /\ (\E i \in 1..(Len(description) - 3) : SubSeq(description, i, i + 3) = T_DIST)
  THEN T_DIST ELSE action

\* The action of the row: its own, or DIST found in the description
resolve_action(action, description) ==
  IF action = <<>> /\ ReSearchDIST(description) THEN T_DIST ELSE action

\* The end of fixup_row: the amount is back-filled, the action resolved and
\* asserted.
fixup_resolved(r, date, settlement, quantity, price, amount, action) ==
  IF action = <<>> THEN [exc |-> "AssertionError", row |-> r]
  ELSE [exc |-> "None",
        row |-> [action |-> action, symbol |-> r.symbol, description |-> r.description,
                 date |-> date, settlement |-> settlement,
                 quantity |-> quantity, price |-> price,
                 amount |-> backfill_amount(amount, quantity, price),
                 currency |-> r.currency]]

\* fixup_row once the dates and the numbers are converted
fixup_parsed(r, date, settlement, quantity, price, amount) ==
  IF ~date.ok \/ ~settlement.ok THEN [exc |-> "ValueError", row |-> r]
  ELSE IF ~quantity.ok \/ ~price.ok \/ ~amount.ok THEN [exc |-> "InvalidOperation", row |-> r]
  ELSE fixup_resolved(r, date, settlement, scale_quantity(quantity, r.description),
                      price, amount, resolve_action(r.action, r.description))

\* fixup_row(row): exc is the exception raised ("None" when it returns), row
\* the row returned.
fixup_row(r) ==
  fixup_parsed(r, strptime(r.date), strptime(r.settlement),
               decimal(r.quantity), decimal(r.price), decimal(r.amount))

-----------------------------------------------------------------------------
(* The ledger's records and the account mapping *)

\* config: the accounts the synthesis reads
config == [cash      |-> [name |-> <<"C", "a", "s", "h">>],
           positions |-> [name |-> <<"P", "o", "s">>],
           dividend  |-> [name |-> <<"D", "i", "v">>]]

filename == <<"a", ".", "x", "l", "s">>

\* account_from_name(name)
account_from_name(name) == [name |-> name]

NoCost == [some |-> FALSE, number |-> DecimalZero, currency |-> <<>>]

\* create_simple_posting(entry, account, number, currency): the posting it
\* appends to the entry
create_simple_posting(account, number, currency) ==
  [account |-> account, number |-> number, currency |-> currency, cost |-> NoCost]

\* create_simple_posting_with_cost(entry, account, number, currency,
\* cost_number, cost_currency): the posting it appends to the entry
create_simple_posting_with_cost(account, number, currency, cost_number, cost_currency) ==
  [account |-> account, number |-> number, currency |-> currency,
   cost |-> [some |-> TRUE, number |-> cost_number, currency |-> cost_currency]]

-----------------------------------------------------------------------------
(* The body of the loop of import_excel_file *)

None == [some |-> FALSE, val |-> DecimalZero]

\* description_amount: decimal(mo.group(1)) if mo else None
amount_of_match(mo) == IF mo.found THEN [some |-> TRUE, val |-> decimal(mo.group)] ELSE None

description_amount_of(description) == amount_of_match(ReSearchAmount(description))

\* The truth value of description_amount: None and zero are false
Truthy(da) == da.some /\ DecimalBool(da.val)

\* settlement: None (here the empty text) if it is the date of the row
settlement_of(r) ==
  IF r.settlement = r.date THEN <<>> ELSE T_Settlement \o DateStr(r.settlement)

\* A join that keeps the empty fragments
narration_unfiltered(r) ==
  Join(T_SEP, <<r.action, r.symbol, r.description, settlement_of(r)>>)

\* ' -- '.join(filter(None, [action, symbol, description, settlement]))
narration_of(r) ==
  Join(T_SEP, FilterNone(<<r.action, r.symbol, r.description, settlement_of(r)>>))

\* account_position after "if row.symbol:"; it keeps its value, or stays
\* unbound, when the symbol is empty
position_account(r, previous) ==
  IF r.symbol # <<>>
  THEN [bound |-> TRUE,
        account |-> account_from_name(config.positions.name \o <<":">> \o r.symbol)]
  ELSE previous

Unbound == [bound |-> FALSE, account |-> account_from_name(<<>>)]

\* The DIV F6 arm
arm_DIV_F6(r, acct, da) ==
  IF ~Truthy(da) THEN [exc |-> "AssertionError", postings |-> <<>>]
  ELSE IF ~acct.bound THEN [exc |-> "UnboundLocalError", postings |-> <<>>]
  ELSE [exc |-> "None",
        postings |-> <<create_simple_posting_with_cost(acct.account, r.quantity, r.symbol,
                                                        da.val, r.currency),
                       create_simple_posting(config.dividend,
                                             DecimalNeg(DecimalMul(r.quantity, da.val)),
                                             r.currency)>>]

\* A Buy / Sell arm that posts the cash leg first
arm_Buy_Sell_cash_first(r, acct) ==
  IF ~acct.bound THEN [exc |-> "UnboundLocalError", postings |-> <<>>]
  ELSE [exc |-> "None",
        postings |-> <<create_simple_posting(config.cash, r.amount, r.currency),
                       create_simple_posting_with_cost(acct.account, r.quantity, r.symbol,
                                                        r.price, r.currency)>>]

\* The Buy / Sell arm
arm_Buy_Sell(r, acct) ==
  IF ~acct.bound THEN [exc |-> "UnboundLocalError", postings |-> <<>>]
  ELSE [exc |-> "None",
        postings |-> <<create_simple_posting_with_cost(acct.account, r.quantity, r.symbol,
                                                        r.price, r.currency),
                       create_simple_posting(config.cash, r.amount, r.currency)>>]

\* The SEL FF / PUR FF arm
arm_FF(r, acct, da) ==
  IF Truthy(da) THEN [exc |-> "AssertionError", postings |-> <<>>]
  ELSE IF ~acct.bound THEN [exc |-> "UnboundLocalError", postings |-> <<>>]
  ELSE [exc |-> "None",
        postings |-> <<create_simple_posting(acct.account, r.quantity, r.symbol)>>]

\* The DIST arm.  The "<price> per share" fragment is appended to the local
\* list extra_narration, which nothing reads afterwards.
arm_DIST(r, da) ==
  IF Truthy(da) THEN [exc |-> "AssertionError", postings |-> <<>>]
  ELSE [exc |-> "None",
        postings |-> <<create_simple_posting(config.dividend, DecimalNeg(r.amount), r.currency),
                       create_simple_posting(config.cash, r.amount, r.currency)>>,
        extra_narration |-> <<DecimalStr(r.price) \o T_per_share>>]

\* The if/elif chain on row.action: the exception it raises ("None" if
\* none) and the postings it appends to the entry, in order.
add_postings(r, acct, da) ==
  IF r.action = T_ADJ_RR THEN [exc |-> "None", postings |-> <<>>]
  ELSE IF r.action = T_RTC_RR THEN [exc |-> "None", postings |-> <<>>]
  ELSE IF r.action = T_EXH_AB THEN [exc |-> "None", postings |-> <<>>]
  ELSE IF r.action = T_DIV_F6 THEN arm_DIV_F6(r, acct, da)
  ELSE IF r.action \in {T_Buy, T_Sell} THEN arm_Buy_Sell(r, acct)
  ELSE IF r.action \in {T_SEL_FF, T_PUR_FF} THEN arm_FF(r, acct, da)
  ELSE IF r.action = T_DIST THEN arm_DIST(r, da)
  ELSE [exc |-> "ValueError", postings |-> <<>>]

\* Transaction(fileloc, row.date, FLAG_IMPORT, None, narration, None, None,
\* postings), with the postings the chain appends.  The narration is the
\* one joined before the chain.
Transaction(i, r, postings) ==
  [fileloc |-> [filename |-> filename, lineno |-> i],
   date |-> r.date, flag |-> "FLAG_IMPORT",
   narration |-> narration_of(r), postings |-> postings]

-----------------------------------------------------------------------------
(* The rows the reader may yield *)

MaxRows == 2

RawRow(action, symbol, description, date, settlement, quantity, price, amount) ==
  [action |-> action, symbol |-> symbol, description |-> description,
   date |-> date, settlement |-> settlement,
   quantity |-> quantity, price |-> price, amount |-> amount,
   currency |-> <<"U", "S", "D">>]

T_XYZ == <<"X", "Y", "Z">>

T_D1 == <<"2", "0", "1", "3", "-", "0", "6", "-", "0", "1">>

T_D4 == <<"2", "0", "1", "3", "-", "0", "6", "-", "0", "4">>

\* The actions of the chain, no action, and an action outside the chain
SampleActions == {T_ADJ_RR, T_RTC_RR, T_EXH_AB, T_DIV_F6, T_Buy, T_Sell, T_SEL_FF, T_PUR_FF,
                  T_DIST, <<>>, <<"F", "O", "O">>}

\* Every action, with and without a symbol, with and without an amount in
\* the description
ClassRows ==
  {RawRow(a, sy, de, T_D1, T_D4, <<"1", "0">>, <<"5", ".", "0", "0">>, <<"5", "0", ".", "0", "0">>) :
     a \in SampleActions, sy \in {T_XYZ, <<>>}, de \in {<<>>, <<"D", "I", "V", " ", "$", "0", ".", "2", "5">>}}

\* Dates: settlement on the date (also written differently), a bad date
DateRows ==
  {RawRow(T_Buy, <<"A", "A", "P", "L">>, de, dt[1], dt[2], <<"1", "0">>, <<"5", ".", "0", "0">>, <<"5", "0", ".", "0", "0">>) :
     de \in {<<>>, <<"B", "u", "y", " ", "s", "h", "a", "r", "e", "s">>},
     dt \in {<<T_D1, T_D1>>, <<<<"2", "0", "1", "3", "-", "6", "-", "1">>, T_D1>>, <<T_D1, <<"2", "0", "1", "3", "-", "0", "2", "-", "3", "0">>>>}}

\* Distributions and dividends: the DIST token, a zero amount and a 1000THS
\* marker in the description
DistRows ==
  {RawRow(a, <<"A", "B", "C">>, de, T_D1, T_D1, <<"1", ",", "0", "0", "0">>, <<"2", ".", "5", "0">>, <<"2", "5", ".", "0", "0">>) :
     a \in {T_DIST, T_DIV_F6, <<>>},
     de \in {<<"X", " ", "D", "I", "S", "T">>, <<"D", "I", "S", "T", "R", "I", "B", "U", "T", "I", "O", "N">>, <<"D", "I", "S", "T", " ", "$", "0", ".", "0", "0">>, <<"1", "0", "0", "0", "T", "H", "S", " ", "$", "1", ",", "0", ".", "5">>}}

\* Numbers: a zero, an empty and an unparsable amount, grouping commas
NumberRows ==
  {RawRow(T_Sell, T_XYZ, <<>>, T_D1, T_D4, n[1], n[2], n[3]) :
     n \in {<<<<"-", "1", ",", "0", "0", "0">>, <<"5", ".", "0", "0">>, <<"0">>>>, <<<<>>, <<>>, <<>>>>,
            <<<<"1", "0">>, <<"5", ".", "0", "0">>, <<"n", "/", "a">>>>, <<<<"1", "0">>, <<",">>, <<"5", "0", ".", "0", "0">>>>}}

RawRows == ClassRows \cup DateRows \cup DistRows \cup NumberRows

\* The rows fixup_row is applied to on its own
FixupRows ==
  {RawRow(a, T_XYZ, de, dt, st, q, pr, am) :
     a  \in {<<>>, T_Buy, T_DIST},
     de \in {<<>>, <<"1", "0", "0", "0", "T", "H", "S", " ", "X">>, <<"X", " ", "1", "0", "0", "0", "T", "H", "S">>, <<"X", " ", "D", "I", "S", "T">>, <<"D", "I", "S", "T", "R", "I", "B", "U", "T", "I", "O", "N">>, <<"1", "0", "0", "0", "T", "H", "S", " ", "D", "I", "S", "T", ".">>},
     dt \in {T_D1, <<"2", "0", "1", "3", "-", "6", "-", "1">>, <<"2", "0", "1", "3", "-", "0", "2", "-", "3", "0">>},
     st \in {T_D1, T_D4},
     q  \in {<<>>, <<"0">>, <<"1", "0">>, <<"1", ",", "0", "0", "0">>, <<"-", "5", ".", "0", "0">>, <<"1", "2", ".", "5">>, <<"x">>, <<"0", ".", "0", "0">>, <<"0", ".", "0", "0", "0", "0", "2">>},
     pr \in {<<>>, <<"5", ".", "0", "0">>, <<"2", ".", "5", "0">>, <<",">>},
     am \in {<<>>, <<"0">>, <<"0", ".", "0", "0">>, <<"5", "0", ".", "0", "0">>, <<"-", "1", ",", "2", "5", "0", ".", "5">>, <<"n">>}}

-----------------------------------------------------------------------------
(* import_excel_file(filename, config, entries) *)

\* The entries the caller already holds
CallerEntries == <<[fileloc |-> [filename |-> <<"o", "l", "d">>, lineno |-> 0]]>>

NoRow == RawRow(<<>>, <<>>, <<>>, <<>>, <<>>, <<>>, <<>>, <<>>)

NotReturned == [returned |-> FALSE, value |-> <<>>]

Init ==
  /\ pc = "start"
  /\ rdr = <<>>
  /\ index = 0
  /\ row = NoRow
  /\ account_position = Unbound
  /\ new_entries = <<>>
  /\ result = NotReturned
  /\ error = "None"
  /\ entries = CallerEntries

\* An exception that is swallowed: the entries built so far are returned
AbortPartial(exc) ==
  /\ pc' = "returned"
  /\ error' = exc
  /\ result' = [returned |-> TRUE, value |-> new_entries]

\* An exception leaves import_excel_file: nothing catches it, and the call
\* returns no value.
Abort(exc) ==
  /\ pc' = "raised"
  /\ error' = exc
  /\ result' = NotReturned

\* ssconvert runs and the reader is opened; a non-zero exit status fails
\* the assertion.
Convert ==
  /\ pc = "start"
  /\ \E r \in {0, 1} :
       IF r = 0 THEN pc' = "loop" /\ UNCHANGED <<error, result>>
       ELSE Abort("AssertionError")
  /\ UNCHANGED <<rdr, index, row, account_position, new_entries, entries>>

\* The row read is fixed up: f is what fixup_row gives for it
FetchRow(raw, f) ==
  /\ rdr' = Append(rdr, raw)
  /\ index' = Len(rdr)
  /\ row' = f.row
  /\ IF f.exc = "None" THEN pc' = "body" /\ UNCHANGED <<error, result>>
     ELSE Abort(f.exc)

\* The reader yields the next row, one of rows, and fixup_row is applied to it.
Fetch(rows) ==
  /\ pc = "loop"
  /\ Len(rdr) < MaxRows
  /\ \E raw \in rows : FetchRow(raw, fixup_row(raw))
  /\ UNCHANGED <<account_position, new_entries, entries>>

\* The transaction of the row is appended, or the chain raises: acct is the
\* position account, p what the chain gives
AppendEntry(acct, p) ==
  /\ account_position' = acct
  /\ IF p.exc = "None"
     THEN /\ new_entries' = Append(new_entries, Transaction(index, row, p.postings))
          /\ pc' = "loop"
          /\ UNCHANGED <<error, result>>
     ELSE Abort(p.exc) /\ UNCHANGED new_entries

\* The rest of the body of the loop: the transaction of the row is built and
\* appended to new_entries.
Synthesize ==
  /\ pc = "body"
  /\ AppendEntry(position_account(row, account_position),
                 add_postings(row, position_account(row, account_position),
                              description_amount_of(row.description)))
  /\ UNCHANGED <<rdr, index, row, entries>>

\* The reader is exhausted: new_entries is returned.
Return ==
  /\ pc = "loop"
  /\ pc' = "returned"
  /\ result' = [returned |-> TRUE, value |-> new_entries]
  /\ UNCHANGED <<rdr, index, row, account_position, new_entries, error, entries>>

Next == Convert \/ Fetch(RawRows) \/ Synthesize \/ Return

Spec == Init /\ [][Next]_vars

\* fixup_row on its own: one row of FixupRows is read and fixed up.
InitFixup ==
  /\ pc = "loop"
  /\ rdr = <<>>
  /\ index = 0
  /\ row = NoRow
  /\ account_position = Unbound
  /\ new_entries = <<>>
  /\ result = NotReturned
  /\ error = "None"
  /\ entries = CallerEntries

NextFixup == Fetch(FixupRows)

SpecFixup == InitFixup /\ [][NextFixup]_vars

-----------------------------------------------------------------------------
(* Properties *)

\* The raw row last read
LastRaw == rdr[Len(rdr)]

\* fixup_row has returned for the row last read
Fixed == pc = "body"

StartsWith(s, prefix) ==
  Len(s) >= Len(prefix) /\ \A i \in 1..Len(prefix) : s[i] = prefix[i]

EndsWith(s, suffix) ==
  Len(s) >= Len(suffix) /\ \A i \in 1..Len(suffix) : s[Len(s) - Len(suffix) + i] = suffix[i]

\* The i-th row read, as fixup_row returns it
FixedRow(i) == fixup_row(rdr[i]).row

\* C1: when fixup_row returns, the amount of a row whose amount field parses
\* to zero is quantity * price (the quantity after the 1000THS rescaling),
\* and the amount of any other row is the parsed amount field.
C1_AmountBackfill ==
  Fixed =>
    IF decimal(LastRaw.amount).int = 0
    THEN DecimalEq(row.amount, DecimalMul(row.quantity, row.price))
    ELSE row.amount = decimal(LastRaw.amount)

PerShareAppended(e, r) ==
  r.action = T_DIST => EndsWith(e.narration, DecimalStr(r.price) \o T_per_share)

\* C2: the narration of the transaction of a DIST row ends with
\* "<price> per share".
C2_DistPerShare ==
  \A i \in 1..Len(new_entries) : PerShareAppended(new_entries[i], FixedRow(i))

\* The table of postings of C3, for a row r, the position account pos and
\* the description amount da
Leg(account, number, currency) ==
  [account |-> account, number |-> number, currency |-> currency,
   cost |-> [some |-> FALSE, number |-> DecimalZero, currency |-> <<>>]]

LegAtCost(account, number, currency, cost_number, cost_currency) ==
  [account |-> account, number |-> number, currency |-> currency,
   cost |-> [some |-> TRUE, number |-> cost_number, currency |-> cost_currency]]

TablePostings(r, pos, da) ==
  CASE r.action \in {T_ADJ_RR, T_RTC_RR, T_EXH_AB} -> <<>>
    [] r.action = T_DIV_F6 ->
         <<LegAtCost(pos, r.quantity, r.symbol, da, r.currency),
           Leg(config.dividend, DecimalNeg(DecimalMul(r.quantity, da)), r.currency)>>
    [] r.action \in {T_Buy, T_Sell} ->
         <<LegAtCost(pos, r.quantity, r.symbol, r.price, r.currency),
           Leg(config.cash, r.amount, r.currency)>>
    [] r.action \in {T_SEL_FF, T_PUR_FF} -> <<Leg(pos, r.quantity, r.symbol)>>
    [] r.action = T_DIST ->
         <<Leg(config.dividend, DecimalNeg(r.amount), r.currency),
           Leg(config.cash, r.amount, r.currency)>>

TableActions == {T_ADJ_RR, T_RTC_RR, T_EXH_AB, T_DIV_F6, T_Buy, T_Sell, T_SEL_FF, T_PUR_FF, T_DIST}

\* The transaction of the row has just been appended
Emitted == pc = "loop" /\ new_entries # <<>>

\* C3: the transaction emitted for a row has the action of one row of the
\* table, and its postings are the postings of that row of the table, in
\* order, the position account being the account held in account_position.
C3_PostingsMatchTable ==
  Emitted =>
    /\ row.action \in TableActions
    /\ new_entries[Len(new_entries)].postings =
         TablePostings(row, account_position.account,
                       description_amount_of(row.description).val)

C3_Witness ==
  /\ Emitted
  /\ Len(new_entries) = 2
  /\ row.action = T_DIV_F6
  /\ Len(new_entries[2].postings) = 2
  /\ Len(new_entries[1].postings) = 1

\* The narration of C8 for a fixed-up row: the fragments that are not empty,
\* each two separated by " -- "
Sep(x, y) == IF x = <<>> THEN y ELSE IF y = <<>> THEN x ELSE x \o <<" ", "-", "-", " ">> \o y

SettlementFragment(r) ==
  IF r.settlement # r.date THEN T_Settlement \o DateStr(r.settlement) ELSE <<>>

JoinedNarration(r) == Sep(Sep(Sep(r.action, r.symbol), r.description), SettlementFragment(r))

BuiltFrom(e, i, f) ==
  /\ f.exc = "None"
  /\ e.fileloc = [filename |-> filename, lineno |-> i - 1]
  /\ e.date = f.row.date
  /\ e.narration = JoinedNarration(f.row)

\* C4: a call that returns returns one transaction per row read, the i-th
\* built from the i-th row and located at (filename, i); a call that raises
\* returns nothing; the entries of the caller are never changed.
C4_AllOrNothing ==
  /\ entries = CallerEntries
  /\ pc = "raised" => ~result.returned /\ result.value = <<>>
  /\ pc = "returned" =>
       /\ error = "None"
       /\ result.returned
       /\ Len(result.value) = Len(rdr)
       /\ \A i \in 1..Len(rdr) : BuiltFrom(result.value[i], i, fixup_row(rdr[i]))
  /\ pc \notin {"raised", "returned"} => ~result.returned

C4_Witness ==
  /\ pc = "raised"
  /\ Len(rdr) = 2
  /\ Len(new_entries) = 1
  /\ error = "ValueError"
  /\ row.action = <<"F", "O", "O">>

\* The fields of a fixed-up row written back as text
AsRaw(r) ==
  [action |-> r.action, symbol |-> r.symbol, description |-> r.description,
   date |-> DateStr(r.date), settlement |-> DateStr(r.settlement),
   quantity |-> DecimalStr(r.quantity), price |-> DecimalStr(r.price),
   amount |-> DecimalStr(r.amount), currency |-> r.currency]

SameRow(f, r) == f.exc = "None" /\ f.row = r

Stable(r) == SameRow(fixup_row(AsRaw(r)), r)

\* C5 as stated: fixup_row applied to the text of a row it returned returns
\* the same row.
C5_Idempotent == Fixed => Stable(row)

\* C5 as amended: fixup_row applied to the text of a row it returned returns
\* the same row, when the description does not start with 1000THS or the
\* quantity is zero.
C5_IdempotentUnscaled ==
  Fixed /\ (~StartsWith(row.description, T_1000THS) \/ row.quantity.int = 0) => Stable(row)

C5_Witness ==
  /\ Fixed
  /\ ~StartsWith(row.description, T_1000THS)
  /\ LastRaw.action = <<>> /\ row.action = T_DIST
  /\ LastRaw.date # DateStr(row.date)
  /\ LastRaw.quantity # DecimalStr(row.quantity)
  /\ row.quantity.int # 0
  /\ row.amount.int = 0
  /\ Stable(row)

\* C6: the action of a row fixup_row returns is not empty; it is the action
\* of the raw row if that is not empty, and DIST if it is empty and the
\* description holds the word DIST; fixup_row returns no row if the action
\* is empty and the description holds no word DIST.
C6_ActionResolution ==
  Len(rdr) > 0 =>
    /\ Fixed => row.action # <<>>
    /\ Fixed /\ LastRaw.action # <<>> => row.action = LastRaw.action
    /\ Fixed /\ LastRaw.action = <<>> => row.action = T_DIST /\ ReSearchDIST(LastRaw.description)
    /\ LastRaw.action = <<>> /\ ~ReSearchDIST(LastRaw.description) => pc = "raised"

C6_Witness ==
  /\ Fixed
  /\ LastRaw.action = <<>>
  /\ row.action = T_DIST
  /\ LastRaw.description = <<"1", "0", "0", "0", "T", "H", "S", " ", "D", "I", "S", "T", ".">>

\* C7: the quantity of a row fixup_row returns is the parsed quantity
\* divided by 1000 if the description starts with 1000THS, and the parsed
\* quantity otherwise; the price is the parsed price.
C7_UnitScale ==
  Fixed =>
    /\ IF StartsWith(LastRaw.description, T_1000THS)
       THEN DecimalEq(DecimalMul(row.quantity, Dec(0, 1000, 0)), decimal(LastRaw.quantity))
       ELSE row.quantity = decimal(LastRaw.quantity)
    /\ row.price = decimal(LastRaw.price)

C7_Witness ==
  /\ Fixed
  /\ StartsWith(LastRaw.description, T_1000THS)
  /\ decimal(LastRaw.quantity) = Dec(0, 125, -1)
  /\ row.quantity = Dec(0, 125, -4)
  /\ row.price = Dec(0, 250, -2)

\* C8: the narration of the transaction emitted for a row is the join by
\* " -- " of the action, the symbol and the description that are not empty,
\* followed by "Settlement: <settlement>" exactly when the settlement date
\* is not the trade date.
C8_NarrationJoin ==
  Emitted =>
    /\ new_entries[Len(new_entries)].narration = JoinedNarration(row)
    /\ EndsWith(new_entries[Len(new_entries)].narration, T_Settlement \o DateStr(row.settlement))
         <=> row.settlement # row.date

C8_Witness ==
  /\ Emitted
  /\ Len(new_entries) = 2
  /\ new_entries[1].narration = <<"B", "u", "y", " ", "-", "-", " ", "A", "A", "P", "L", " ", "-", "-", " ", "B", "u", "y", " ", "s", "h", "a", "r", "e", "s">>
  /\ rdr[1].date # rdr[1].settlement
  /\ new_entries[2].narration = <<"S", "e", "l", "l", " ", "-", "-", " ", "X", "Y", "Z", " ", "-", "-", " ", "S", "e", "t", "t", "l", "e", "m", "e", "n", "t", ":", " ", "2", "0", "1", "3", "-", "0", "6", "-", "0", "4">>

PositionActions == {T_DIV_F6, T_Buy, T_Sell, T_SEL_FF, T_PUR_FF}

OwnPositionAccount(e, r) ==
  r.action \in PositionActions =>
    e.postings[1].account.name = config.positions.name \o <<":">> \o r.symbol

\* C9: every posting to a position account goes to positions:SYMBOL of the
\* symbol of its own row.
C9_OwnPositionAccount ==
  \A i \in 1..Len(new_entries) : OwnPositionAccount(new_entries[i], FixedRow(i))

\* The chain has run on the row last read
Classified == Len(rdr) > 0 /\ fixup_row(LastRaw).exc = "None" /\ pc \in {"loop", "raised"}

\* C10: the assertion of the DIV F6 arm fails exactly when the description
\* holds no "$" amount, and the assertion of the SEL FF, PUR FF and DIST arms
\* exactly when it holds one.
C10_ArmPreconditions ==
  Classified =>
    /\ row.action = T_DIV_F6 =>
         (error = "AssertionError" <=> ~ReSearchAmount(row.description).found)
    /\ row.action \in {T_SEL_FF, T_PUR_FF, T_DIST} =>
         (error = "AssertionError" <=> ReSearchAmount(row.description).found)

====
